---- MODULE Spec2Model ----
(***************************************************************************)
(* A model of scrape_acs.py: the Census ACS fetch loop (fetch_acs_data),   *)
(* the label resolver (find_variable_by_label), the per-table transform    *)
(* recipes (the process_rb... functions) and their rankings.              *)
(*                                                                         *)
(* Encoding of Python values:                                              *)
(*   - a str is a sequence of symbols (characters, or whole words where    *)
(*     the text is long); str.lower() maps the symbols, `a in b` is        *)
(*     contiguous-subsequence containment, endswith('E') looks at the      *)
(*     last symbol;                                                        *)
(*   - a float is an integer; None is the value NoneV; every value of a    *)
(*     record is a [tag, num, str] record so that values compare;          *)
(*   - a dict is a function whose DOMAIN is its key set; var_labels, whose *)
(*     iteration order matters, is a sequence of [code, label] entries.    *)
(***************************************************************************)
EXTENDS Integers, Sequences, FiniteSets, TLC

VARIABLES
    pc,            \* where the modelled call stands
    table_id,      \* key of TABLES being processed
    cfg_year,      \* CONFIG['year'], the year the call is made with
    max_retries,   \* CONFIG['max_retries']
    srv_labels,    \* what the API holds as variable metadata for the table
    srv_data,      \* what the API holds as rows for the table
    var_labels,    \* fetch_acs_data: var_labels
    labels_year,   \* year the metadata request was made for (0: none made)
    label_outcome, \* history: how the metadata request ended ("none": not made)
    year,          \* fetch_acs_data: year (local, decremented by the fallback)
    url,           \* fetch_acs_data: url (the year it names, and the table)
    attempt,       \* fetch_acs_data: loop index of range(max_retries)
    log,           \* history: the data requests made, <<year, response kind>>
    result,        \* "pending", "success" (data, var_labels) or "failure" (None, None)
    data,          \* rows returned on success
    data_year,     \* year of the request whose body was returned (0: none)
    search_terms,  \* find_variable_by_label: search_terms
    exclude_terms, \* find_variable_by_label: exclude_terms
    found,         \* find_variable_by_label: the returned code (NoCode: None)
    processed,     \* process_*: the returned list of row dicts
    outcome,       \* "pending", "failed", "ok" or "error" (the recipe raised)
    idx,           \* main: position in TABLES of the table at hand (0: none yet)
    all_data,      \* main: all_data, table id -> processed rows
    success_count, \* main: success_count
    fail_count,    \* main: fail_count
    failed_tables, \* main: failed_tables
    outcomes,      \* history: the outcome of every table handled so far
    written,       \* "no", "ok" (write_to_excel returned) or "raised"
    summary        \* NoSummary, or the counts and names the summary printed

vars == <<pc, table_id, cfg_year, max_retries, srv_labels, srv_data, var_labels,
          labels_year, label_outcome, year, url, attempt, log, result, data, data_year,
          search_terms, exclude_terms, found, processed, outcome,
          idx, all_data, success_count, fail_count, failed_tables, outcomes,
          written, summary>>

labelVars == <<var_labels, labels_year, label_outcome>>
fetchVars == <<labelVars, year, url, attempt, log, result, data, data_year>>
inputVars == <<table_id, cfg_year, max_retries, srv_labels, srv_data>>
resolveVars == <<search_terms, exclude_terms, found>>
processVars == <<processed, outcome>>
countVars == <<all_data, success_count, fail_count, failed_tables, outcomes>>
driverVars == <<idx, countVars, written, summary>>

NoSummary == [printed |-> FALSE, success |-> 0, failed |-> 0, names |-> <<>>]

\* main() before its loop: lines 644-647
MainStart ==
    /\ idx = 0
    /\ all_data = <<>>
    /\ success_count = 0
    /\ fail_count = 0
    /\ failed_tables = <<>>
    /\ outcomes = <<>>
    /\ written = "no"
    /\ summary = NoSummary

----------------------------------------------------------------------------
(* Bounds of the model *)

\* max_retries ranges over 0..MaxRetries
MaxRetries == 3
\* cfg_year ranges over FallbackFloor .. FallbackFloor + YearSpan
YearSpan == 2

\* `year > 2020` in the 404 branch of fetch_acs_data
FallbackFloor == 2020

----------------------------------------------------------------------------
(* fetch_variable_labels and fetch_acs_data *)

NoCode == <<>>

\* Outcomes of the metadata GET: a 2xx JSON object with "variables", a 2xx JSON
\* object without it, a non-2xx status, a body that is not JSON, an exception
\* raised by requests.get.
LabelOutcomes == {"variables", "novariables", "status", "unparsable", "transport"}

\* the same without the fall-through to `return {}`
fetch_variable_labels_NoFallback(outcome_) == srv_labels

fetch_variable_labels(outcome_) ==
    IF outcome_ = "variables" THEN srv_labels ELSE <<>>

\* Outcomes of the data GET: RequestException raised, 404, another non-2xx
\* status, 2xx with an empty list, 2xx with the header row only, 2xx with rows.
ResponseKinds == {"transport", "notfound", "error", "empty", "headeronly", "valid"}

Body(kind) ==
    CASE kind = "valid" -> srv_data
      [] kind = "headeronly" -> <<srv_data[1]>>
      [] OTHER -> <<>>

\* `if data and len(data) > 1`
IsUsable_OffByOne(body) == body # <<>> /\ Len(body) >= 1
IsUsable(body) == body # <<>> /\ Len(body) > 1

\* `for attempt in range(CONFIG['max_retries'])`
MoreAttempts_OffByOne == attempt <= max_retries
MoreAttempts == attempt < max_retries

\* url.replace(f"/{year+1}/", f"/{year}/")
UrlReplaceYear(u, old, new) == IF u.year = old THEN [u EXCEPT !.year = new] ELSE u

Logged(kind) == Append(log, [year |-> url.year, kind |-> kind])

\* lines 163-171: dataset path, metadata fetch, url built for `year`
FetchLabels ==
    /\ pc = "labels"
    /\ \E o \in LabelOutcomes :
          /\ var_labels' = fetch_variable_labels(o)
          /\ label_outcome' = o
    /\ labels_year' = year
    /\ url' = [year |-> year, table |-> table_id]
    /\ pc' = "request"
    /\ UNCHANGED <<inputVars, year, attempt, log, result, data, data_year,
                   resolveVars, processVars, driverVars>>

\* lines 176-181 and 190: a 2xx response
ResponseOk ==
    /\ pc = "request"
    /\ MoreAttempts
    /\ \E kind \in {"empty", "headeronly", "valid"} :
          /\ log' = Logged(kind)
          /\ IF IsUsable(Body(kind))
                THEN /\ result' = "success"
                     /\ data' = Body(kind)
                     /\ data_year' = url.year
                     /\ pc' = "returned"
                     /\ UNCHANGED attempt
                ELSE /\ attempt' = attempt + 1
                     /\ UNCHANGED <<result, data, data_year, pc>>
    /\ UNCHANGED <<inputVars, labelVars, year, url,
                   resolveVars, processVars, driverVars>>

\* lines 182-190: a 404 response
ResponseNotFound_EveryTime ==
    /\ pc = "request"
    /\ MoreAttempts
    /\ log' = Logged("notfound")
    /\ IF year > FallbackFloor
          THEN /\ year' = year - 1
               /\ url' = UrlReplaceYear(url, year, year - 1)
          ELSE UNCHANGED <<year, url>>
    /\ attempt' = attempt + 1
    /\ UNCHANGED <<inputVars, labelVars, result, data, data_year, pc,
                   resolveVars, processVars, driverVars>>

ResponseNotFound ==
    /\ pc = "request"
    /\ MoreAttempts
    /\ log' = Logged("notfound")
    /\ IF attempt = 0 /\ year > FallbackFloor
          THEN /\ year' = year - 1
               /\ url' = UrlReplaceYear(url, year, year - 1)
          ELSE UNCHANGED <<year, url>>
    /\ attempt' = attempt + 1
    /\ UNCHANGED <<inputVars, labelVars, result, data, data_year, pc,
                   resolveVars, processVars, driverVars>>

\* line 190: any other non-2xx status
ResponseError ==
    /\ pc = "request"
    /\ MoreAttempts
    /\ log' = Logged("error")
    /\ attempt' = attempt + 1
    /\ UNCHANGED <<inputVars, labelVars, year, url, result, data,
                   data_year, pc, resolveVars, processVars, driverVars>>

\* lines 192-195: requests.get raised RequestException
RequestFailed ==
    /\ pc = "request"
    /\ MoreAttempts
    /\ log' = Logged("transport")
    /\ attempt' = attempt + 1
    /\ UNCHANGED <<inputVars, labelVars, year, url, result, data,
                   data_year, pc, resolveVars, processVars, driverVars>>

\* line 197: the loop is over, `return None, None`
Exhausted ==
    /\ pc = "request"
    /\ ~MoreAttempts
    /\ result' = "failure"
    /\ pc' = "returned"
    /\ UNCHANGED <<inputVars, labelVars, year, url, attempt, log,
                   data, data_year, resolveVars, processVars, driverVars>>

FetchStep ==
    \/ FetchLabels
    \/ ResponseOk
    \/ ResponseNotFound
    \/ ResponseError
    \/ RequestFailed
    \/ Exhausted

----------------------------------------------------------------------------
(* Spec: one call of fetch_acs_data, for every year and retry count *)

NameCol == <<"NAME">>
FetchTable == << <<NameCol>>, << <<"a">> >> >>

Years == FallbackFloor .. FallbackFloor + YearSpan

Init ==
    /\ pc = "labels"
    /\ table_id = "RB039"
    /\ cfg_year \in Years
    /\ max_retries \in 0 .. MaxRetries
    /\ srv_labels = <<>>
    /\ srv_data = FetchTable
    /\ var_labels = <<>>
    /\ labels_year = 0
    /\ label_outcome = "none"
    /\ year = cfg_year
    /\ url = [year |-> 0, table |-> table_id]
    /\ attempt = 0
    /\ log = <<>>
    /\ result = "pending"
    /\ data = <<>>
    /\ data_year = 0
    /\ search_terms = <<>>
    /\ exclude_terms = <<>>
    /\ found = NoCode
    /\ processed = <<>>
    /\ outcome = "pending"
    /\ MainStart

Next == FetchStep

Spec == Init /\ [][Next]_vars

\* The loop runs to its end: nothing outside the call can stop it.
FairSpec == Spec /\ WF_vars(Next)

----------------------------------------------------------------------------
(* find_variable_by_label *)

\* str.lower(), symbol by symbol. The symbols are the characters of the
\* resolver's small alphabet and the words of the Census labels.
Lowered ==
    [c \in {"A", "B", "C"} |-> CASE c = "A" -> "a" [] c = "B" -> "b" [] OTHER -> "c"]
    @@ [w \in {"Estimate", "Percent", "Total", "Population", "Under", "Years",
               "To", "And", "Over", "Male", "Female", "Mean", "Workers",
               "Uninsured", "Older", "High", "Bachelor", "Graduate"} |->
          CASE w = "Estimate" -> "estimate" [] w = "Percent" -> "percent"
            [] w = "Total" -> "total" [] w = "Population" -> "population"
            [] w = "Under" -> "under" [] w = "Years" -> "years"
            [] w = "To" -> "to" [] w = "And" -> "and" [] w = "Over" -> "over"
            [] w = "Male" -> "male" [] w = "Female" -> "female"
            [] w = "Mean" -> "mean" [] w = "Workers" -> "workers"
            [] w = "Uninsured" -> "uninsured" [] w = "Older" -> "older"
            [] w = "High" -> "high" [] w = "Bachelor" -> "bachelor"
            [] OTHER -> "graduate"]

LowerSym(c) == IF c \in DOMAIN Lowered THEN Lowered[c] ELSE c
Lower(s) == [i \in 1 .. Len(s) |-> LowerSym(s[i])]

\* `term in label` on str
Contains(term, label) ==
    \E k \in 0 .. Len(label) - Len(term) :
        \A i \in 1 .. Len(term) : label[k + i] = term[i]

\* var_code.endswith('E')
EndsWithE(code) == Len(code) > 0 /\ code[Len(code)] = "E"

\* var_info.get('label', '')
GetLabel(info) == IF info.has_label THEN info.label ELSE <<>>

\* lines 206-217: the three `continue` tests of the loop body
Passes(entry, terms, excl) ==
    LET label == Lower(GetLabel(entry.info)) IN
    /\ EndsWithE(entry.code)
    /\ \A i \in DOMAIN terms : Contains(Lower(terms[i]), label)
    /\ ~ \E i \in DOMAIN excl : Contains(Lower(excl[i]), label)

\* the same tests with `term in label` on the terms as given
Passes_TermsNotLowered(entry, terms, excl) ==
    LET label == Lower(GetLabel(entry.info)) IN
    /\ EndsWithE(entry.code)
    /\ \A i \in DOMAIN terms : Contains(terms[i], label)
    /\ ~ \E i \in DOMAIN excl : Contains(excl[i], label)

RECURSIVE ScanFrom(_, _, _, _)
\* lines 205-221: `for var_code, var_info in var_labels.items()`
ScanFrom(labels, i, terms, excl) ==
    IF i > Len(labels) THEN NoCode
    ELSE IF Passes(labels[i], terms, excl) THEN labels[i].code
    ELSE ScanFrom(labels, i + 1, terms, excl)

RECURSIVE ScanFrom_TermsNotLowered(_, _, _, _)
ScanFrom_TermsNotLowered(labels, i, terms, excl) ==
    IF i > Len(labels) THEN NoCode
    ELSE IF Passes_TermsNotLowered(labels[i], terms, excl) THEN labels[i].code
    ELSE ScanFrom_TermsNotLowered(labels, i + 1, terms, excl)

find_variable_by_label_TermsNotLowered(labels, terms, excl) ==
    ScanFrom_TermsNotLowered(labels, 1, terms, excl)

\* exclude_terms = None is passed as the empty list (lines 202-203)
find_variable_by_label(labels, terms, excl) == ScanFrom(labels, 1, terms, excl)

----------------------------------------------------------------------------
(* SpecResolve: find_variable_by_label on every small metadata mapping *)

\* var_labels holds at most MaxEntries entries
MaxEntries == 2
\* search_terms and exclude_terms hold at most MaxTerms terms each
MaxTerms == 1

SeqsUpTo(S, n) == UNION {[1 .. k -> S] : k \in 0 .. n}

ResolveCodes == {<<"x", "E">>, <<"y", "E">>, <<"x", "M">>}
ResolveInfos ==
    {[has_label |-> TRUE, label |-> l] :
        l \in {<<"A", "b">>, <<"b", "A">>, <<"a", "c", "b">>, <<"C">>}}
    \cup {[has_label |-> FALSE, label |-> <<>>]}
ResolveTerms == {<<"a", "B">>, <<"b">>, <<"c">>}

\* a dict: no code twice
ResolveMappings ==
    {m \in SeqsUpTo([code : ResolveCodes, info : ResolveInfos], MaxEntries) :
        \A i, j \in DOMAIN m : i # j => m[i].code # m[j].code}

InitResolve ==
    /\ pc = "resolve"
    /\ table_id = "RB002"
    /\ cfg_year = FallbackFloor
    /\ max_retries = 0
    /\ srv_labels = <<>>
    /\ srv_data = <<>>
    /\ var_labels \in ResolveMappings
    /\ labels_year = 0
    /\ label_outcome = "none"
    /\ year = cfg_year
    /\ url = [year |-> 0, table |-> table_id]
    /\ attempt = 0
    /\ log = <<>>
    /\ result = "pending"
    /\ data = <<>>
    /\ data_year = 0
    /\ search_terms \in SeqsUpTo(ResolveTerms, MaxTerms)
    /\ exclude_terms \in SeqsUpTo(ResolveTerms, MaxTerms)
    /\ found = NoCode
    /\ processed = <<>>
    /\ outcome = "pending"
    /\ MainStart

Resolve ==
    /\ pc = "resolve"
    /\ found' = find_variable_by_label(var_labels, search_terms, exclude_terms)
    /\ pc' = "resolved"
    /\ UNCHANGED <<inputVars, fetchVars, search_terms, exclude_terms, processVars,
                   driverVars>>

NextResolve == Resolve

SpecResolve == InitResolve /\ [][NextResolve]_vars

----------------------------------------------------------------------------
(* Values, cells and sorting shared by the process_rb... recipes *)

NoneV == [tag |-> "none", num |-> 0, str |-> ""]
Num(n) == [tag |-> "num", num |-> n, str |-> ""]
Str(t) == [tag |-> "str", num |-> 0, str |-> t]

\* float(cell) for the cells that parse; float() raises ValueError on the others
FloatOf == [c \in {"-5", "0", "5"} |-> CASE c = "-5" -> -5 [] c = "0" -> 0 [] OTHER -> 5]

\* `float(row[idx]) if row[idx] else None`, and None from the bare `except`
ToFloat(cell) ==
    IF cell = "" THEN NoneV
    ELSE IF cell \in DOMAIN FloatOf THEN Num(FloatOf[cell]) ELSE NoneV

\* headers.index(col): the first position holding col
IndexOf(headers, col) ==
    CHOOSE i \in DOMAIN headers :
        headers[i] = col /\ \A j \in 1 .. i - 1 : headers[j] # col

\* `var_code and var_code in headers`
InHeaders(code, headers) ==
    code # NoCode /\ \E i \in DOMAIN headers : headers[i] = code

\* `headers.index('NAME') if 'NAME' in headers else 0` (1-based here)
name_idx(headers) ==
    IF \E i \in DOMAIN headers : headers[i] = <<"NAME">>
        THEN IndexOf(headers, <<"NAME">>) ELSE 1

\* `row_data[field] = value`
Put(rec, field, value) == (field :> value) @@ rec

\* the `if var_code and var_code in headers: ... try/except` block without an
\* else branch (rb002, rb039b, rb044)
PutIfColumn(rec, field, code, headers, row) ==
    IF InHeaders(code, headers)
        THEN Put(rec, field, ToFloat(row[IndexOf(headers, code)]))
        ELSE rec

\* the same block with `else: row_data[field] = None` (rb032), or with the
\* value initialised to None before it (rb039, rb040)
PutColumnOrNone(rec, field, code, headers, row) ==
    IF InHeaders(code, headers)
        THEN Put(rec, field, ToFloat(row[IndexOf(headers, code)]))
        ELSE Put(rec, field, NoneV)

\* `x.get(field, dflt) or dflt`: the default for a missing key, for None and
\* for 0.0
SortKey(rec, field, dflt) ==
    IF field \in DOMAIN rec /\ rec[field].tag = "num" /\ rec[field].num # 0
        THEN rec[field].num ELSE dflt

\* an unstable ordering: each index also goes ahead of the equal keys
GoesBeforeOrTies(a, b, reverse) == IF reverse THEN a >= b ELSE a <= b

\* list.sort / sorted are stable, also with reverse=True. Insertion of the
\* indices 1..n, in order, each behind every index whose key is not worse.
GoesBefore(a, b, reverse) == IF reverse THEN a > b ELSE a < b

InsertIdx(sorted, j, keys, reverse) ==
    LET ahead == {k \in DOMAIN sorted : GoesBefore(keys[j], keys[sorted[k]], reverse)}
        pos == IF ahead = {} THEN Len(sorted) + 1
               ELSE CHOOSE k \in ahead : \A m \in ahead : k <= m
    IN  SubSeq(sorted, 1, pos - 1) \o <<j>> \o SubSeq(sorted, pos, Len(sorted))

RECURSIVE SortIdxFrom(_, _, _, _)
SortIdxFrom(sorted, j, keys, reverse) ==
    IF j > Len(keys) THEN sorted
    ELSE SortIdxFrom(InsertIdx(sorted, j, keys, reverse), j + 1, keys, reverse)

\* the permutation sorted() applies: position -> index in the list given
SortIdx(keys, reverse) == SortIdxFrom(<<>>, 1, keys, reverse)

\* `recs.sort(key=lambda x: x.get(field, dflt) or dflt, reverse=reverse)`
SortRecords(recs, field, dflt, reverse) ==
    LET p == SortIdx([i \in DOMAIN recs |-> SortKey(recs[i], field, dflt)], reverse)
    IN  [i \in DOMAIN recs |-> recs[p[i]]]

\* `for i, row in enumerate(recs, 1): row[rank] = i`
Enumerate(recs, rank) == [i \in DOMAIN recs |-> Put(recs[i], rank, Num(i))]

\* `for i, row in enumerate(sorted(recs, key=...), 1): row[rank] = i`: the rows
\* of recs are ranked through a sorted copy of the list, recs keeps its order
RankThroughCopy(recs, field, dflt, reverse, rank) ==
    LET p == SortIdx([i \in DOMAIN recs |-> SortKey(recs[i], field, dflt)], reverse)
    IN  [i \in DOMAIN recs |->
            Put(recs[i], rank, Num(CHOOSE k \in DOMAIN p : p[k] = i))]

Headers(d) == d[1]
Rows(d) == SubSeq(d, 2, Len(d))

\* `row[name_idx]`, outside any try: IndexError on a row that short
Raises(d) == \E i \in DOMAIN Rows(d) : Len(Rows(d)[i]) < name_idx(Headers(d))

----------------------------------------------------------------------------
(* The recipes. Search terms are the source's, written word by word. *)

MaleFemale == << <<"male">>, <<"female">> >>

PctTotalPop(age) == << <<"percent">>, <<"total", "population">>, age >>

\* lines 279-286 (and 290-297): one contributor's share of the sum; an empty
\* cell adds 0, a cell float() rejects is passed over
Contribution(code, headers, row) ==
    IF InHeaders(code, headers)
        THEN LET cell == row[IndexOf(headers, code)] IN
             IF cell # "" /\ cell \in DOMAIN FloatOf THEN FloatOf[cell] ELSE 0
        ELSE 0

RECURSIVE SumOver(_, _, _)
SumOver(codes, headers, row) ==
    IF codes = <<>> THEN 0
    ELSE Contribution(Head(codes), headers, row) + SumOver(Tail(codes), headers, row)

\* `sum if sum > 0 else None`
SumOrNone(total) == IF total > 0 THEN Num(total) ELSE NoneV

process_rb002_age_groups(d, labels) ==
    LET headers == Headers(d)
        under18 == find_variable_by_label(labels, PctTotalPop(<<"under", "18">>), MaleFemale)
        age18_24 == find_variable_by_label(labels, PctTotalPop(<<"18", "to", "24">>), MaleFemale)
        over64 == find_variable_by_label(labels,
                      PctTotalPop(<<"65", "years", "and", "over">>), MaleFemale)
        age(lo, hi) == find_variable_by_label(labels, PctTotalPop(<<lo, "to", hi>>), MaleFemale)
        group25_44 == <<age("25", "29"), age("30", "34"), age("35", "39"), age("40", "44")>>
        group45_64 == <<age("45", "49"), age("50", "54"), age("55", "59"), age("60", "64")>>
        RowData(row) ==
            LET r0 == ("State" :> Str(row[name_idx(headers)]))
                r1 == PutIfColumn(r0, "%<18", under18, headers, row)
                r2 == PutIfColumn(r1, "%18-24", age18_24, headers, row)
                r3 == PutIfColumn(r2, "%>64", over64, headers, row)
                r4 == Put(r3, "%25-44", SumOrNone(SumOver(group25_44, headers, row)))
            IN  Put(r4, "%45-64", SumOrNone(SumOver(group45_64, headers, row)))
        built == [i \in DOMAIN Rows(d) |-> RowData(Rows(d)[i])]
    IN  Enumerate(SortRecords(built, "%<18", 0, TRUE), "Rank")

EducationExclude ==
    << <<"male">>, <<"female">>, <<"25", "to", "34">>, <<"35", "to", "44">>,
       <<"45", "to", "64">>, <<"65", "years", "and", "over">>, <<"earnings">>,
       <<"median">> >>

process_rb032_education(d, labels) ==
    LET headers == Headers(d)
        adults == <<"25", "years", "and", "over">>
        hs_var == find_variable_by_label(labels,
                      << <<"high", "school", "graduate", "or", "higher">>, <<"percent">>,
                         adults >>, EducationExclude)
        bachelors_var == find_variable_by_label(labels,
                      << <<"bachelor">>, <<"or", "higher">>, <<"percent">>, adults >>,
                      EducationExclude)
        advanced_var == find_variable_by_label(labels,
                      << <<"graduate">>, <<"professional">>, <<"percent">>, adults >>,
                      EducationExclude)
        RowData(row) ==
            LET r0 == ("State" :> Str(row[name_idx(headers)]))
                r1 == PutColumnOrNone(r0, "Completed H.S. or Higher", hs_var, headers, row)
                r2 == PutColumnOrNone(r1, "Bachelors or Higher", bachelors_var, headers, row)
            IN  PutColumnOrNone(r2, "Advanced Degree", advanced_var, headers, row)
        built == [i \in DOMAIN Rows(d) |-> RowData(Rows(d)[i])]
        ranked == Enumerate(SortRecords(built, "Completed H.S. or Higher", 0, TRUE), "Rank")
        byBachelors == RankThroughCopy(ranked, "Bachelors or Higher", 0, TRUE, "Bachelors Rank")
    IN  RankThroughCopy(byBachelors, "Advanced Degree", 0, TRUE, "Advanced Rank")

Workers16 == <<"workers", "16", "years">>

process_rb039_commuting(d, labels) ==
    LET headers == Headers(d)
        mean_var == find_variable_by_label(labels,
                        << <<"mean", "travel", "time">>, Workers16 >>, MaleFemale)
        RowData(row) ==
            PutColumnOrNone("Metro Area" :> Str(row[name_idx(headers)]),
                            "Average Commute Time", mean_var, headers, row)
        built == [i \in DOMAIN Rows(d) |-> RowData(Rows(d)[i])]
    IN  Enumerate(SortRecords(built, "Average Commute Time", 0, TRUE), "Rank")

ModeExclude ==
    << <<"male">>, <<"female">>, <<"2-person">>, <<"3-person">>, <<"4-or-more">> >>

CarTruckVan == <<"car,", "truck,", "or", "van">>

process_rb039b_mode_of_transportation(d, labels) ==
    LET headers == Headers(d)
        drove_alone_var == find_variable_by_label(labels,
                        << CarTruckVan, <<"drove", "alone">>, Workers16 >>, ModeExclude)
        carpooled_var == find_variable_by_label(labels,
                        << CarTruckVan, <<"carpooled">>, Workers16 >>, ModeExclude)
        public_transit_var == find_variable_by_label(labels,
                        << <<"public", "transportation">>, Workers16 >>, ModeExclude)
        RowData(row) ==
            LET r0 == ("Metro Area" :> Str(row[name_idx(headers)]))
                r1 == PutIfColumn(r0, "% Drove Alone", drove_alone_var, headers, row)
                r2 == PutIfColumn(r1, "% Carpooled", carpooled_var, headers, row)
            IN  PutIfColumn(r2, "% Public Transit", public_transit_var, headers, row)
        built == [i \in DOMAIN Rows(d) |-> RowData(Rows(d)[i])]
    IN  Enumerate(SortRecords(built, "% Public Transit", 0, TRUE), "Rank")

\* str(CONFIG['year'])
YearField == ToString(cfg_year)

process_rb040_wfh(d, labels) ==
    LET headers == Headers(d)
        wfh_var == find_variable_by_label(labels,
                        << <<"worked", "from", "home">>, Workers16 >>, MaleFemale)
        RowData(row) ==
            PutColumnOrNone("Metro Area" :> Str(row[name_idx(headers)]),
                            YearField, wfh_var, headers, row)
        built == [i \in DOMAIN Rows(d) |-> RowData(Rows(d)[i])]
    IN  Enumerate(SortRecords(built, YearField, 0, TRUE), "Rank")

\* 'S2701_C05_001E', used as the column of the total without any label search
TotalUninsuredCode == <<"S2701_C05_001", "E">>

\* lines 561-565 for one age column, skipped when the first row lacks the key
AgeRank(recs, age_col, rank) ==
    IF age_col \in DOMAIN recs[1]
        THEN RankThroughCopy(recs, age_col, 100, FALSE, rank)
        ELSE recs

process_rb044_health_insurance(d, labels) ==
    LET headers == Headers(d)
        pct == <<"percent", "uninsured">>
        under19 == find_variable_by_label(labels, <<pct, <<"under", "19", "years">> >>, <<>>)
        age19_64 == find_variable_by_label(labels, <<pct, <<"19", "to", "64", "years">> >>, <<>>)
        over65 == find_variable_by_label(labels,
                      <<pct, <<"65", "years", "and", "older">> >>, <<>>)
        RowData(row) ==
            LET r0 == ("State" :> Str(row[name_idx(headers)]))
                r1 == PutIfColumn(r0, "Percent Uninsured", TotalUninsuredCode, headers, row)
                r2 == PutIfColumn(r1, "Age <19", under19, headers, row)
                r3 == PutIfColumn(r2, "Age 19-64", age19_64, headers, row)
            IN  PutIfColumn(r3, "Age 65+", over65, headers, row)
        built == [i \in DOMAIN Rows(d) |-> RowData(Rows(d)[i])]
        ranked == Enumerate(SortRecords(built, "Percent Uninsured", 100, FALSE), "Rank")
        a1 == AgeRank(ranked, "Age <19", "Age <19 Rank")
        a2 == AgeRank(a1, "Age 19-64", "Age 19-64 Rank")
    IN  AgeRank(a2, "Age 65+", "Age 65+ Rank")

\* lines 671-684: the recipe of the table
Recipe(t, d, labels) ==
    CASE t = "RB002" -> process_rb002_age_groups(d, labels)
      [] t = "RB032" -> process_rb032_education(d, labels)
      [] t = "RB039" -> process_rb039_commuting(d, labels)
      [] t = "RB039B" -> process_rb039b_mode_of_transportation(d, labels)
      [] t = "RB040" -> process_rb040_wfh(d, labels)
      [] t = "RB044" -> process_rb044_health_insurance(d, labels)
      [] OTHER -> <<>>

\* lines 663-667: `if data is None`: the table is recorded as failed
RecordFailure ==
    /\ pc = "returned"
    /\ result = "failure"
    /\ outcome' = "failed"
    /\ pc' = "done"
    /\ UNCHANGED <<inputVars, fetchVars, resolveVars, processed>>

\* lines 669-693: the recipe runs inside try/except Exception
Process ==
    /\ pc = "returned"
    /\ result = "success"
    /\ IF Raises(data)
          THEN outcome' = "error" /\ UNCHANGED processed
          ELSE outcome' = "ok" /\ processed' = Recipe(table_id, data, var_labels)
    /\ pc' = "done"
    /\ UNCHANGED <<inputVars, fetchVars, resolveVars>>

----------------------------------------------------------------------------
(* SpecTransform: every recipe on every small table and metadata mapping *)

\* a table holds at most MaxCells value cells (rows x value columns)
MaxCells == 4

TableIds == {"RB002", "RB032", "RB039", "RB039B", "RB040", "RB044"}

Entry(stem, suffix, words) ==
    [code |-> <<stem, suffix>>, info |-> [has_label |-> TRUE, label |-> words]]

AgeEntry(stem, words) ==
    Entry(stem, "E", <<"Estimate", "Percent", "Total", "population">> \o words)

\* group S0101 as the API describes it: a Male column and a margin column
\* ahead of the total-population estimates
CatalogS0101 ==
    << Entry("S0101_C04_022", "E",
             <<"Estimate", "Percent", "Male", "Total", "population", "Under", "18", "years">>),
       Entry("S0101_C02_022", "M",
             <<"Margin", "of", "Error", "Percent", "Total", "population", "Under", "18", "years">>),
       AgeEntry("S0101_C02_007", <<"25", "to", "29", "years">>),
       AgeEntry("S0101_C02_008", <<"30", "to", "34", "years">>),
       AgeEntry("S0101_C02_009", <<"35", "to", "39", "years">>),
       AgeEntry("S0101_C02_010", <<"40", "to", "44", "years">>),
       AgeEntry("S0101_C02_011", <<"45", "to", "49", "years">>),
       AgeEntry("S0101_C02_012", <<"50", "to", "54", "years">>),
       AgeEntry("S0101_C02_013", <<"55", "to", "59", "years">>),
       AgeEntry("S0101_C02_014", <<"60", "to", "64", "years">>),
       AgeEntry("S0101_C02_022", <<"Under", "18", "years">>),
       AgeEntry("S0101_C02_023", <<"18", "to", "24", "years">>),
       AgeEntry("S0101_C02_030", <<"65", "years", "and", "over">>) >>

EduEntry(stem, sex, words) ==
    Entry(stem, "E", <<"Estimate", "Percent">> \o sex
                     \o <<"Population", "25", "years", "and", "over">> \o words)

CatalogS1501 ==
    << EduEntry("S1501_C04_014", <<"Male">>, <<"High", "school", "graduate", "or", "higher">>),
       EduEntry("S1501_C02_014", <<>>, <<"High", "school", "graduate", "or", "higher">>),
       EduEntry("S1501_C02_015", <<>>, <<"Bachelor", "degree", "or", "higher">>),
       EduEntry("S1501_C02_013", <<>>, <<"Graduate", "or", "professional", "degree">>) >>

CommuteEntry(stem, words) ==
    Entry(stem, "E", <<"Estimate", "Total", "Workers", "16", "years", "and", "over">> \o words)

CatalogS0801 ==
    << CommuteEntry("S0801_C01_003", <<"car,", "truck,", "or", "van", "drove", "alone">>),
       CommuteEntry("S0801_C01_005", <<"car,", "truck,", "or", "van", "carpooled", "2-person">>),
       CommuteEntry("S0801_C01_004", <<"car,", "truck,", "or", "van", "carpooled">>),
       CommuteEntry("S0801_C01_009", <<"public", "transportation">>),
       CommuteEntry("S0801_C01_013", <<"worked", "from", "home">>),
       CommuteEntry("S0801_C01_046", <<"Mean", "travel", "time", "to", "work">>) >>

InsEntry(stem, words) == Entry(stem, "E", <<"Estimate", "Percent", "Uninsured">> \o words)

CatalogS2701 ==
    << InsEntry("S2701_C05_001", <<"Civilian", "population">>),
       InsEntry("S2701_C05_011", <<"Under", "19", "years">>),
       InsEntry("S2701_C05_012", <<"19", "to", "64", "years">>),
       InsEntry("S2701_C05_013", <<"65", "years", "and", "older">>) >>

Catalog(t) ==
    CASE t = "RB002" -> CatalogS0101
      [] t = "RB032" -> CatalogS1501
      [] t = "RB044" -> CatalogS2701
      [] OTHER -> CatalogS0801

\* the metadata a recipe may be handed: the group's, or none
MetaVariants(t) == {Catalog(t), <<>>}

Code(stem) == <<stem, "E">>

\* the value columns a recipe reads, in the order the API lists them
DataCodes(t) ==
    CASE t = "RB002" ->
            <<Code("S0101_C02_007"), Code("S0101_C02_008"), Code("S0101_C02_009"),
              Code("S0101_C02_010"), Code("S0101_C02_011"), Code("S0101_C02_012"),
              Code("S0101_C02_013"), Code("S0101_C02_014"), Code("S0101_C02_022"),
              Code("S0101_C02_023"), Code("S0101_C02_030")>>
      [] t = "RB032" -> <<Code("S1501_C02_014"), Code("S1501_C02_015"), Code("S1501_C02_013")>>
      [] t = "RB039" -> <<Code("S0801_C01_046")>>
      [] t = "RB039B" ->
            <<Code("S0801_C01_003"), Code("S0801_C01_004"), Code("S0801_C01_009")>>
      [] t = "RB040" -> <<Code("S0801_C01_013")>>
      [] OTHER ->
            <<Code("S2701_C05_001"), Code("S2701_C05_011"), Code("S2701_C05_012"),
              Code("S2701_C05_013")>>

\* cells of the data rows: empty, and numbers below, at and above zero
CellPool == {"", "-5", "0", "5"}

\* the i-th geography's NAME
RowName(i) == ToString(i)

\* header NAME + the c value columns from the a-th on, r rows of cells
Table(t, a, r, c, cells) ==
    << <<NameCol>> \o SubSeq(DataCodes(t), a, a + c - 1) >>
        \o [i \in 1 .. r |-> <<RowName(i)>> \o cells[i]]

Shapes(t) ==
    {rc \in (1 .. MaxCells) \X (0 .. Len(DataCodes(t))) : rc[1] * rc[2] <= MaxCells}

InitTransform ==
    /\ pc = "returned"
    /\ table_id \in TableIds
    /\ cfg_year = FallbackFloor + 1
    /\ max_retries = 1
    /\ srv_labels = <<>>
    /\ srv_data = <<>>
    /\ var_labels \in MetaVariants(table_id)
    /\ labels_year = cfg_year
    /\ label_outcome = "variables"
    /\ year = cfg_year
    /\ url = [year |-> cfg_year, table |-> table_id]
    /\ attempt = 0
    /\ log = <<>>
    /\ result = "success"
    /\ \E rc \in Shapes(table_id) :
       \E a \in 1 .. Len(DataCodes(table_id)) - rc[2] + 1 :
       \E cells \in [1 .. rc[1] -> [1 .. rc[2] -> CellPool]] :
          data = Table(table_id, a, rc[1], rc[2], cells)
    /\ data_year = cfg_year
    /\ search_terms = <<>>
    /\ exclude_terms = <<>>
    /\ found = NoCode
    /\ processed = <<>>
    /\ outcome = "pending"
    /\ MainStart

NextTransform == Process /\ UNCHANGED driverVars

SpecTransform == InitTransform /\ [][NextTransform]_vars

----------------------------------------------------------------------------
(* SpecPipeline: one table of main()'s loop, from the metadata request to   *)
(* the recipe                                                               *)

\* max_retries ranges over 1..PipelineRetries
PipelineRetries == 2

\* cells the API answers with: empty, a text float() rejects, a number
PipelineCells == {"", "x", "5"}

\* the group's full table for two geographies, one cell value per row
FullTable(t, v, w) ==
    Table(t, 1, 2, Len(DataCodes(t)),
          [i \in 1 .. 2 |-> [j \in 1 .. Len(DataCodes(t)) |-> IF i = 1 THEN v ELSE w]])

InitPipeline ==
    /\ pc = "labels"
    /\ table_id \in TableIds
    /\ cfg_year = FallbackFloor + 1
    /\ max_retries \in 1 .. PipelineRetries
    /\ srv_labels = Catalog(table_id)
    /\ \E v, w \in PipelineCells : srv_data = FullTable(table_id, v, w)
    /\ var_labels = <<>>
    /\ labels_year = 0
    /\ label_outcome = "none"
    /\ year = cfg_year
    /\ url = [year |-> 0, table |-> table_id]
    /\ attempt = 0
    /\ log = <<>>
    /\ result = "pending"
    /\ data = <<>>
    /\ data_year = 0
    /\ search_terms = <<>>
    /\ exclude_terms = <<>>
    /\ found = NoCode
    /\ processed = <<>>
    /\ outcome = "pending"
    /\ MainStart

NextPipeline ==
    \/ FetchStep
    \/ RecordFailure /\ UNCHANGED driverVars
    \/ Process /\ UNCHANGED driverVars

SpecPipeline == InitPipeline /\ [][NextPipeline]_vars

----------------------------------------------------------------------------
(* SpecDriver: main(), the loop over TABLES, the write and the summary *)

\* TABLES.items(), in the order of the dict literal
TABLES == <<"RB002", "RB032", "RB039", "RB039B", "RB040", "RB044">>

\* max_retries ranges over 1..DriverRetries
DriverRetries == 1

\* a body whose row stops before the NAME column: row[name_idx] raises
ShortTable(t) == << <<Code("S"), NameCol>>, <<"5">> >>

\* what the API may hold for a table: one geography and its NAME, or the
\* short row
DriverTables(t) == {Table(t, 1, 1, 0, << <<>> >>), ShortTable(t)}

\* the metadata the API holds for the table: the first variable of the group
DriverLabels(t) == SubSeq(Catalog(t), 1, 1)

InitDriver ==
    /\ pc = "main"
    /\ table_id = ""
    /\ cfg_year = FallbackFloor + 1
    /\ max_retries \in 1 .. DriverRetries
    /\ srv_labels = <<>>
    /\ srv_data = <<>>
    /\ var_labels = <<>>
    /\ labels_year = 0
    /\ label_outcome = "none"
    /\ year = cfg_year
    /\ url = [year |-> 0, table |-> table_id]
    /\ attempt = 0
    /\ log = <<>>
    /\ result = "pending"
    /\ data = <<>>
    /\ data_year = 0
    /\ search_terms = <<>>
    /\ exclude_terms = <<>>
    /\ found = NoCode
    /\ processed = <<>>
    /\ outcome = "pending"
    /\ MainStart

\* the loop is at its head: before the first table or behind the last statement
\* of an iteration
AtLoopHead == pc \in {"main", "done"}

\* lines 651-661: the for statement takes the next table and calls
\* fetch_acs_data(table_id, CONFIG['year'], ...), whose locals start afresh
NextTable ==
    /\ AtLoopHead
    /\ idx < Len(TABLES)
    /\ idx' = idx + 1
    /\ table_id' = TABLES[idx + 1]
    /\ srv_labels' = DriverLabels(TABLES[idx + 1])
    /\ srv_data' \in DriverTables(TABLES[idx + 1])
    /\ var_labels' = <<>>
    /\ labels_year' = 0
    /\ label_outcome' = "none"
    /\ year' = cfg_year
    /\ url' = [year |-> 0, table |-> TABLES[idx + 1]]
    /\ attempt' = 0
    /\ log' = <<>>
    /\ result' = "pending"
    /\ data' = <<>>
    /\ data_year' = 0
    /\ processed' = <<>>
    /\ outcome' = "pending"
    /\ pc' = "labels"
    /\ UNCHANGED <<cfg_year, max_retries, resolveVars, countVars, written, summary>>

\* the call of fetch_acs_data at lines 655-661
TableFetch == FetchStep

\* the same without the append to failed_tables
TableFailed_NotListed ==
    /\ RecordFailure
    /\ fail_count' = fail_count + 1
    /\ outcomes' = Append(outcomes, "failed")
    /\ UNCHANGED <<idx, all_data, success_count, failed_tables, written, summary>>

\* lines 663-667: `if data is None`: counted, listed, `continue`
TableFailed ==
    /\ RecordFailure
    /\ fail_count' = fail_count + 1
    /\ failed_tables' = Append(failed_tables, table_id)
    /\ outcomes' = Append(outcomes, "failed")
    /\ UNCHANGED <<idx, all_data, success_count, written, summary>>

\* lines 669-693: the recipe inside try; all_data and success_count on return,
\* fail_count and failed_tables in the except branch
TableProcessed ==
    /\ Process
    /\ IF Raises(data)
          THEN /\ fail_count' = fail_count + 1
               /\ failed_tables' = Append(failed_tables, table_id)
               /\ outcomes' = Append(outcomes, "error")
               /\ UNCHANGED <<all_data, success_count>>
          ELSE /\ all_data' = (table_id :> processed') @@ all_data
               /\ success_count' = success_count + 1
               /\ outcomes' = Append(outcomes, "ok")
               /\ UNCHANGED <<fail_count, failed_tables>>
    /\ UNCHANGED <<idx, written, summary>>

LoopOver == AtLoopHead /\ idx = Len(TABLES)

\* lines 706-720: the summary
Printed == [printed |-> TRUE, success |-> success_count, failed |-> fail_count,
            names |-> failed_tables]

\* lines 696-703: `if all_data`, write_to_excel raises, `return`
WriteRaises ==
    /\ LoopOver
    /\ DOMAIN all_data # {}
    /\ written' = "raised"
    /\ pc' = "exit"
    /\ UNCHANGED <<inputVars, fetchVars, resolveVars, processVars, idx, countVars,
                   summary>>

\* lines 696-720: `if all_data`, write_to_excel returns, the summary
WriteThenSummary ==
    /\ LoopOver
    /\ DOMAIN all_data # {}
    /\ written' = "ok"
    /\ summary' = Printed
    /\ pc' = "exit"
    /\ UNCHANGED <<inputVars, fetchVars, resolveVars, processVars, idx, countVars>>

\* lines 696 and 706-720: all_data is empty, the summary only
SummaryOnly ==
    /\ LoopOver
    /\ DOMAIN all_data = {}
    /\ summary' = Printed
    /\ pc' = "exit"
    /\ UNCHANGED <<inputVars, fetchVars, resolveVars, processVars, idx, countVars,
                   written>>

NextDriver ==
    \/ NextTable
    \/ TableFetch
    \/ TableFailed
    \/ TableProcessed
    \/ WriteRaises
    \/ WriteThenSummary
    \/ SummaryOnly

SpecDriver == InitDriver /\ [][NextDriver]_vars

\* main() runs to its end: every call it makes returns
FairDriver == SpecDriver /\ WF_vars(NextDriver)

----------------------------------------------------------------------------
(* Claims about fetch_acs_data (Spec, FairSpec) *)

Returned == pc = "returned"
RequestsFor(y) == {i \in DOMAIN log : log[i].year = y}
\* the 404 branch has substituted the preceding year
FellBack == year # cfg_year
\* a 404 answered to a request for year-1
PostFallback404(i) == log[i].kind = "notfound" /\ log[i].year = cfg_year - 1

\* C1 (as claimed): when the first data request is answered 404 and the call
\* falls back, a request for year-1 follows whatever the retry count (>= 1), a
\* valid answer to it is returned as the year-1 success, and the fallback costs
\* nothing of the retry budget: if every year-1 request fails in transport,
\* max_retries of them are made.
C1_FallbackNotCharged ==
    (Returned /\ max_retries >= 1 /\ FellBack) =>
        /\ RequestsFor(cfg_year - 1) # {}
        /\ \A i \in RequestsFor(cfg_year - 1) :
              log[i].kind = "valid" =>
                  result = "success" /\ data_year = cfg_year - 1 /\ data = srv_data
        /\ (/\ result = "failure"
            /\ \A i \in RequestsFor(cfg_year - 1) : log[i].kind = "transport")
              => Cardinality(RequestsFor(cfg_year - 1)) = max_retries

\* every data request is for year or year-1, and never for year again after
\* one was made for year-1
YearDecrementedAtMostOnce ==
    /\ year \in {cfg_year, cfg_year - 1}
    /\ \A i \in DOMAIN log : log[i].year \in {cfg_year, cfg_year - 1}
    /\ \A i, j \in DOMAIN log : i < j => log[j].year <= log[i].year

AllOfKind(kinds) == \A i \in DOMAIN log : log[i].kind \in kinds

C3_Safe ==
    /\ Len(log) <= max_retries
    /\ (Returned /\ AllOfKind({"transport"})) => result = "failure"

\* C3: for every retry count and every sequence of responses the call
\* returns, having made at most max_retries data requests, and when every data
\* request ended in a transport failure it returns the failure signal.
C3_BoundedRetries == []C3_Safe /\ <>Returned

C3_Witness ==
    /\ Returned
    /\ max_retries >= 2
    /\ Len(log) = max_retries
    /\ AllOfKind({"transport"})
    /\ result = "failure"

\* C4: a success carries the header row and at least one data row, it is the
\* body of the last response, and a call that only ever received empty or
\* header-only bodies returns the failure signal.
C4_SuccessHasRows ==
    /\ result = "success" =>
          /\ Len(data) >= 2
          /\ log[Len(log)].kind = "valid"
          /\ \A i \in 1 .. Len(log) - 1 : log[i].kind # "valid"
    /\ (Returned /\ AllOfKind({"empty", "headeronly"})) => result = "failure"
    /\ result = "failure" => data = <<>>

C4_Witness ==
    /\ Returned
    /\ result = "success"
    /\ \E i, j \in DOMAIN log : log[i].kind = "empty" /\ log[j].kind = "headeronly"

----------------------------------------------------------------------------
(* Claims about find_variable_by_label (SpecResolve) *)

\* t occurs in l, case-insensitively: l splits into a prefix, a run equal to t
\* up to case, and a suffix
OccursFolded(t, l) ==
    \E a \in 1 .. Len(l) + 1 :
        /\ a + Len(t) - 1 <= Len(l)
        /\ \A i \in 1 .. Len(t) : LowerSym(l[a + i - 1]) = LowerSym(t[i])

LabelOf(i) == IF var_labels[i].info.has_label THEN var_labels[i].info.label ELSE <<>>

Qualifies(i) ==
    /\ var_labels[i].code[Len(var_labels[i].code)] = "E"
    /\ \A k \in DOMAIN search_terms : OccursFolded(search_terms[k], LabelOf(i))
    /\ \A k \in DOMAIN exclude_terms : ~OccursFolded(exclude_terms[k], LabelOf(i))

\* C5: the resolver returns code c iff c is the first code, in the mapping's
\* iteration order, that is an estimate column and whose label contains,
\* case-insensitively, every required term and no forbidden term; it returns
\* no-match iff no code qualifies.
C5_FirstQualifying ==
    pc = "resolved" =>
        /\ \A i \in DOMAIN var_labels :
              (found = var_labels[i].code) <=>
                  (Qualifies(i) /\ \A j \in 1 .. i - 1 : ~Qualifies(j))
        /\ (found = NoCode) <=> (\A i \in DOMAIN var_labels : ~Qualifies(i))

\* the first entry is passed over for a later one, on a term given in upper case
C5_Witness ==
    /\ pc = "resolved"
    /\ Len(var_labels) = 2
    /\ found = var_labels[2].code
    /\ search_terms = << <<"a", "B">> >>
    /\ exclude_terms # <<>>
    /\ var_labels[1].code[Len(var_labels[1].code)] = "E"

----------------------------------------------------------------------------
(* Claims about the recipes (SpecTransform, SpecPipeline) *)

Processed == pc = "done" /\ outcome = "ok"

\* the metadata names the code
Described(code) == \E i \in DOMAIN var_labels : var_labels[i].code = code

\* the input row of geography n, and its cell in the column of code
InputRow(n) == data[n + 1]
HasColumn(code) == \E i \in DOMAIN data[1] : data[1][i] = code
CellOf(n, code) == InputRow(n)[CHOOSE i \in DOMAIN data[1] : data[1][i] = code]

\* the variable is resolved, is a column, and the row's cell is a number
NumericAt(n, code) ==
    Described(code) /\ HasColumn(code) /\ CellOf(n, code) \in {"-5", "0", "5"}
NumberAt(n, code) ==
    CASE CellOf(n, code) = "-5" -> -5 [] CellOf(n, code) = "0" -> 0 [] OTHER -> 5
ShareOf(n, code) == IF NumericAt(n, code) THEN NumberAt(n, code) ELSE 0

\* the record made of geography n
NameField == IF table_id \in {"RB002", "RB032", "RB044"} THEN "State" ELSE "Metro Area"
RecordOf(n) ==
    processed[CHOOSE i \in DOMAIN processed : processed[i][NameField].str = RowName(n)]
Geographies == 1 .. Len(data) - 1

Contributors25_44 ==
    <<Code("S0101_C02_007"), Code("S0101_C02_008"), Code("S0101_C02_009"),
      Code("S0101_C02_010")>>
Contributors45_64 ==
    <<Code("S0101_C02_011"), Code("S0101_C02_012"), Code("S0101_C02_013"),
      Code("S0101_C02_014")>>

DerivedAsClaimed(n, field, codes) ==
    IF \E k \in 1 .. 4 : NumericAt(n, codes[k])
        THEN RecordOf(n)[field] =
                Num(ShareOf(n, codes[1]) + ShareOf(n, codes[2])
                    + ShareOf(n, codes[3]) + ShareOf(n, codes[4]))
        ELSE RecordOf(n)[field] = NoneV

\* C6 (as claimed): in process_rb002_age_groups each of %25-44 and %45-64 is
\* the sum of its contributors that are resolved and numeric for the row, and
\* is absent iff none of them is, also when the present ones sum to 0 or less.
C6_DerivedSums ==
    (Processed /\ table_id = "RB002") =>
        \A n \in Geographies :
            /\ DerivedAsClaimed(n, "%25-44", Contributors25_44)
            /\ DerivedAsClaimed(n, "%45-64", Contributors45_64)

\* the fields of a recipe's records ("Output columns" of its docstring)
FieldsOf(t) ==
    CASE t = "RB002" -> {"State", "Rank", "%<18", "%18-24", "%25-44", "%45-64", "%>64"}
      [] t = "RB032" -> {"Rank", "State", "Completed H.S. or Higher", "Bachelors or Higher",
                         "Bachelors Rank", "Advanced Degree", "Advanced Rank"}
      [] t = "RB039" -> {"Rank", "Metro Area", "Average Commute Time"}
      [] t = "RB039B" -> {"Rank", "Metro Area", "% Drove Alone", "% Carpooled",
                          "% Public Transit"}
      [] t = "RB040" -> {"Rank", "Metro Area", YearField}
      [] OTHER -> {"Rank", "State", "Percent Uninsured", "Age <19", "Age <19 Rank",
                   "Age 19-64", "Age 19-64 Rank", "Age 65+", "Age 65+ Rank"}

\* the column a value field is read from; NoCode for the sums and the ranks
ColumnOf(t, field) ==
    CASE field = "%<18" -> Code("S0101_C02_022")
      [] field = "%18-24" -> Code("S0101_C02_023")
      [] field = "%>64" -> Code("S0101_C02_030")
      [] field = "Completed H.S. or Higher" -> Code("S1501_C02_014")
      [] field = "Bachelors or Higher" -> Code("S1501_C02_015")
      [] field = "Advanced Degree" -> Code("S1501_C02_013")
      [] field = "Average Commute Time" -> Code("S0801_C01_046")
      [] field = "% Drove Alone" -> Code("S0801_C01_003")
      [] field = "% Carpooled" -> Code("S0801_C01_004")
      [] field = "% Public Transit" -> Code("S0801_C01_009")
      [] field = "Percent Uninsured" -> Code("S2701_C05_001")
      [] field = "Age <19" -> Code("S2701_C05_011")
      [] field = "Age 19-64" -> Code("S2701_C05_012")
      [] field = "Age 65+" -> Code("S2701_C05_013")
      [] field = YearField /\ t = "RB040" -> Code("S0801_C01_013")
      [] OTHER -> NoCode

\* C7 (as claimed): the records of a recipe carry the same field names
\* whatever the resolution gave; a field whose variable is unresolved, or whose
\* code is no column of the header, is in every record with the value None.
C7_FixedFieldSet ==
    Processed =>
        \A i \in DOMAIN processed :
            /\ \A f \in FieldsOf(table_id) :
                  (ColumnOf(table_id, f) # NoCode) => f \in DOMAIN processed[i]
            /\ \A f \in FieldsOf(table_id) :
                  (/\ ColumnOf(table_id, f) # NoCode
                   /\ ~(Described(ColumnOf(table_id, f)) /\ HasColumn(ColumnOf(table_id, f))))
                      => f \in DOMAIN processed[i] /\ processed[i][f] = NoneV

\* the metadata request ended in a transport error, a non-2xx status or a
\* body that is not JSON
LabelsFailed == label_outcome \in {"transport", "status", "unparsable"}

RankNames ==
    {"Rank", "Bachelors Rank", "Advanced Rank", "Age <19 Rank", "Age 19-64 Rank",
     "Age 65+ Rank"}
ValueFields(t) == FieldsOf(t) \ (RankNames \cup {"State", "Metro Area"})

Value(rec, field) == IF field \in DOMAIN rec THEN rec[field] ELSE NoneV

\* what a cell reads as: a number, or nothing
Reading(cell) ==
    CASE cell = "-5" -> Num(-5) [] cell = "0" -> Num(0) [] cell = "5" -> Num(5)
      [] OTHER -> NoneV

FetchGoesOn ==
    /\ LabelsFailed => var_labels = <<>>
    /\ (LabelsFailed /\ pc = "request" /\ attempt < max_retries) => ENABLED ResponseOk
    /\ (LabelsFailed /\ pc = "done" /\ result = "success") =>
          outcome = "ok" /\ Len(processed) = Len(data) - 1

\* C8 (as claimed): after a failed metadata fetch the label index is empty,
\* the data fetch still proceeds, the table is produced, and every value field
\* of every record is absent.
C8_AllFieldsAbsent ==
    /\ FetchGoesOn
    /\ (LabelsFailed /\ Processed) =>
          \A i \in DOMAIN processed : \A f \in ValueFields(table_id) :
              Value(processed[i], f) = NoneV

\* C8 (amended): after a failed metadata fetch the label index is empty, the
\* data fetch still proceeds, the table is produced, and every value field
\* found by label search (the derived sums included) is absent from every
\* record or None in it; "Percent Uninsured" of process_rb044_health_insurance
\* is read from the fixed column S2701_C05_001E and keeps the row's number.
C8_LabelFieldsAbsent ==
    /\ FetchGoesOn
    /\ (LabelsFailed /\ Processed) =>
          /\ \A i \in DOMAIN processed :
                \A f \in ValueFields(table_id) \ {"Percent Uninsured"} :
                    Value(processed[i], f) = NoneV
          /\ table_id = "RB044" =>
                \A n \in Geographies :
                    /\ "Percent Uninsured" \in DOMAIN RecordOf(n)
                    /\ RecordOf(n)["Percent Uninsured"]
                          = Reading(CellOf(n, Code("S2701_C05_001")))

C8_Witness ==
    /\ LabelsFailed /\ Processed
    /\ table_id = "RB044"
    /\ \E i \in DOMAIN processed :
          /\ Value(processed[i], "Percent Uninsured") = Num(5)
          /\ "Age <19" \notin DOMAIN processed[i]

PrimaryField(t) ==
    CASE t = "RB002" -> "%<18"
      [] t = "RB032" -> "Completed H.S. or Higher"
      [] t = "RB039" -> "Average Commute Time"
      [] t = "RB039B" -> "% Public Transit"
      [] t = "RB040" -> YearField
      [] OTHER -> "Percent Uninsured"

RankOf(n, rank) == RecordOf(n)[rank].num

\* C9: every rank field a recipe produces takes exactly the values 1..N over
\* its N records, none twice, and records with equal values of the primary key
\* (equal numbers, or both absent) get their primary ranks in input order.
C9_DenseStableRanks ==
    Processed =>
        LET N == Len(data) - 1 IN
        /\ Len(processed) = N
        /\ \A i \in 1 .. N : processed[i]["Rank"] = Num(i)
        /\ \A rank \in RankNames :
              LET holders == {i \in 1 .. N : rank \in DOMAIN processed[i]} IN
              /\ holders \in {{}, 1 .. N}
              /\ rank \notin FieldsOf(table_id) => holders = {}
              /\ rank \in FieldsOf(table_id) \cap {"Rank", "Bachelors Rank", "Advanced Rank"}
                    => holders = 1 .. N
              /\ holders # {} =>
                    /\ \A i \in 1 .. N : processed[i][rank].tag = "num"
                    /\ {processed[i][rank].num : i \in 1 .. N} = 1 .. N
        /\ \A m, n \in Geographies :
              (/\ m < n
               /\ Value(RecordOf(m), PrimaryField(table_id))
                    = Value(RecordOf(n), PrimaryField(table_id)))
                  => RankOf(m, "Rank") < RankOf(n, "Rank")

\* two geographies tie on 5 and keep their input order, ahead of a third
C9_Witness ==
    /\ Processed
    /\ Len(data) - 1 = 3
    /\ Value(RecordOf(1), PrimaryField(table_id)) = Num(0)
    /\ Value(RecordOf(2), PrimaryField(table_id)) = Num(5)
    /\ Value(RecordOf(3), PrimaryField(table_id)) = Num(5)
    /\ RankOf(2, "Rank") = 1 /\ RankOf(3, "Rank") = 2 /\ RankOf(1, "Rank") = 3

SecondaryKeys(t) ==
    CASE t = "RB032" -> {<<"Bachelors or Higher", "Bachelors Rank">>,
                         <<"Advanced Degree", "Advanced Rank">>}
      [] t = "RB044" -> {<<"Age <19", "Age <19 Rank">>, <<"Age 19-64", "Age 19-64 Rank">>,
                         <<"Age 65+", "Age 65+ Rank">>}
      [] OTHER -> {}

\* the table d with the cells of every value column but that of code emptied
OnlyColumn(d, code) ==
    [r \in DOMAIN d |->
        IF r = 1 THEN d[1]
        ELSE [j \in DOMAIN d[r] |->
                IF d[1][j] \in {NameCol, code} THEN d[r][j] ELSE ""]]

RankIn(recs, n, rank) ==
    recs[CHOOSE i \in DOMAIN recs : recs[i][NameField].str = RowName(n)][rank].num

\* C10 (as claimed): a secondary rank depends only on the input order of the
\* rows and on its own key: ties on the key are broken by input order, and the
\* ranks are those of the same rows with the other keys' values taken away.
C10_SecondaryRanksIndependent ==
    Processed =>
        \A kr \in SecondaryKeys(table_id) :
            kr[2] \in DOMAIN processed[1] =>
                /\ \A m, n \in Geographies :
                      (m < n /\ Value(RecordOf(m), kr[1]) = Value(RecordOf(n), kr[1]))
                          => RankOf(m, kr[2]) < RankOf(n, kr[2])
                /\ \A n \in Geographies :
                      RankOf(n, kr[2])
                        = RankIn(Recipe(table_id,
                                        OnlyColumn(data, ColumnOf(table_id, kr[1])),
                                        var_labels), n, kr[2])

\* C14: whenever fetch_acs_data returns success, the metadata it returns was
\* requested for the year of the request whose rows it returns, the year-1
\* fallback included.
C14_LabelsOfSameYear ==
    (pc = "returned" /\ result = "success") => labels_year = data_year

\* every ranking of a recipe: <<key field, rank field, ascending>>
RankKeys(t) ==
    {<<PrimaryField(t), "Rank", t = "RB044">>}
        \cup {<<kr[1], kr[2], t = "RB044">> : kr \in SecondaryKeys(t)}

IsNumber(v) == v.tag = "num"

\* C11 (as claimed): in process_rb044_health_insurance a record whose value
\* for a rank key is absent is ranked as if the value were 100 (behind every
\* smaller present value, ahead of every larger one), and behind every record
\* whose value is present.
C11_AbsentRanksLast ==
    (Processed /\ table_id = "RB044") =>
        \A k \in RankKeys(table_id) :
            k[2] \in DOMAIN processed[1] =>
                \A m, n \in Geographies :
                    (/\ Value(RecordOf(m), k[1]) = NoneV
                     /\ IsNumber(Value(RecordOf(n), k[1])))
                        => /\ Value(RecordOf(n), k[1]).num < 100
                                => RankOf(n, k[2]) < RankOf(m, k[2])
                           /\ Value(RecordOf(n), k[1]).num > 100
                                => RankOf(n, k[2]) > RankOf(m, k[2])
                           /\ RankOf(n, k[2]) < RankOf(m, k[2])

Better(v, w, ascending) == IF ascending THEN v < w ELSE v > w

\* C15 (as claimed): for every rank key and any two records whose values for
\* the key are both numbers, the record with the strictly better value
\* (smaller for an ascending key, larger for a descending one) gets the
\* strictly smaller rank, 0 included.
C15_BetterValueBetterRank ==
    Processed =>
        \A k \in RankKeys(table_id) :
            k[2] \in DOMAIN processed[1] =>
                \A m, n \in Geographies :
                    (/\ IsNumber(Value(RecordOf(m), k[1]))
                     /\ IsNumber(Value(RecordOf(n), k[1]))
                     /\ Better(Value(RecordOf(m), k[1]).num,
                               Value(RecordOf(n), k[1]).num, k[3]))
                        => RankOf(m, k[2]) < RankOf(n, k[2])

----------------------------------------------------------------------------
(* Claims about main() (SpecDriver, FairDriver) *)

Handled == Len(outcomes)
Listed(t) == \E i \in DOMAIN failed_tables : failed_tables[i] = t
MainOver == pc = "exit"

C12_Safe ==
    /\ idx \in 0 .. Len(TABLES)
    /\ idx > 0 => table_id = TABLES[idx]
    /\ Handled = IF idx > 0 /\ pc \notin {"done", "exit"} THEN idx - 1 ELSE idx
    /\ \A k \in 1 .. Len(TABLES) :
          /\ k <= Handled =>
                /\ (TABLES[k] \in DOMAIN all_data) # Listed(TABLES[k])
                /\ (TABLES[k] \in DOMAIN all_data) = (outcomes[k] = "ok")
          /\ k > Handled => TABLES[k] \notin DOMAIN all_data /\ ~Listed(TABLES[k])
    /\ \A i, j \in DOMAIN failed_tables : failed_tables[i] = failed_tables[j] => i = j
    /\ success_count = Cardinality(DOMAIN all_data)
    /\ fail_count = Len(failed_tables)
    /\ success_count + fail_count = Handled
    /\ (LoopOver \/ MainOver) => success_count + fail_count = Len(TABLES)

\* C12: whatever the outcome of each table (fetch failure, exception in the
\* recipe, success), main() takes the tables of TABLES in order and reaches the
\* end of the loop; every table handled is in exactly one of all_data (the
\* tables that succeeded) and failed_tables, and at the end of the loop
\* success_count + fail_count is the number of tables.
C12_EveryTableAccounted == []C12_Safe /\ <>(Handled = Len(TABLES))

\* the loop has ended after a fetch failure, an exception, a success and a
\* failure again
C12_Witness ==
    /\ MainOver
    /\ outcomes[1] = "failed" /\ outcomes[2] = "error" /\ outcomes[3] = "ok"
    /\ outcomes[4] = "failed"
    /\ success_count + fail_count = Len(TABLES)

\* C13 (as claimed): every run of main() prints the summary (the two counts
\* and the failed tables), whatever the outcomes of the tables and of
\* write_to_excel; write_to_excel is called if and only if a table succeeded.
C13_SummaryAlways ==
    /\ <>(summary = Printed /\ summary.printed)
    /\ [](MainOver => ((written # "no") <=> (success_count > 0)))

====
